---- MODULE Spec2Model ----
(***************************************************************************)
(* A model of aztube: the resilient fetch layer of scraper.py (proxy pool, *)
(* rotation cursor, eviction, the retry loop of Scraper.fetch_html as the  *)
(* tasks of Scraper.scrape run it) and the download engine of              *)
(* downloader.py (file naming, the worker pool, the retry queue).          *)
(*                                                                         *)
(* Python lists are 0-based: proxies[i] of the source is proxies[i + 1]    *)
(* here.  File names and URL paths are sequences of one-character strings, *)
(* so that os.path.splitext is computed and not assumed.                   *)
(***************************************************************************)
EXTENDS Integers, Sequences, FiniteSets, Bags, TLC

VARIABLES
    \* ---- scraper.py, class Scraper
    candidates,            \* what fetch_proxies() returned
    probes,                \* check_proxy's result for each candidate
    use_proxy,             \* self.use_proxy
    proxies,               \* self.proxies
    current_proxy_index,   \* self.current_proxy_index
    spc,                   \* where the caller of the scraper stands
    video_links,           \* len(self.video_links)
    ftask,                 \* the fetch_html calls: 0 is the base page, 1.. the details
    handed,                \* history: what get_next_proxy returned, up to the first eviction
    evicted,               \* history: the endpoints fetch_html removed
    scraper_videos,        \* self.videos of the Scraper: what scrape returns
    proxy_disabled,        \* history: __aenter__ switched proxy usage off
    \* ---- downloader.py, class Downloader
    videos,                \* the list handed to Downloader (input)
    files,                 \* the names that exist in download_folder
    files0,                \* history: the names that existed when the run began
    video_queue,           \* self.video_queue, as positions of videos
    retry_queue,           \* self.retry_queue
    temp_queue,            \* temp_queue of retry_failed_downloads
    retry_attempt,         \* retry_attempt of retry_failed_downloads
    mpc,                   \* where the thread running process_queue stands
    report,                \* the closing message of retry_failed_downloads
    work_queue,            \* the executor's work items no thread has taken yet
    calls,                 \* the download_video calls running, a bag
    starts,                \* history: download_video calls begun, per video
    succeeded,             \* history: the videos a download_video call completed
    dropped,               \* history: videos that met a storage failure
    written,               \* history: the names opened for writing in this run
    clobbered,             \* history: the names opened for writing more than once
    faults,                \* history: the download attempts that failed so far
    \* ---- scraper.py, Scraper.extract_metadata taken alone
    html_content,          \* what fetch_html returned to extract_metadata
    metadata               \* what extract_metadata returned, once it has

fvars == <<candidates, probes, use_proxy, proxies, current_proxy_index, spc,
           video_links, ftask, handed, evicted, scraper_videos,
           proxy_disabled>>

dvars == <<videos, files, files0, video_queue, retry_queue, temp_queue,
           retry_attempt, mpc, report, work_queue, calls, starts, succeeded,
           dropped, written, clobbered, faults>>

xvars == <<html_content, metadata>>

vars == <<fvars, dvars, xvars>>

-----------------------------------------------------------------------------
\* Bounds of the model.
MaxCand == 3
MaxLinks == 2
MaxVideos == 2
MaxFaults == 2
MaxBody == 4
MaxTemp == 3

\* Program constants.
MAX_RETRIES == 3
JitterLow == 1
JitterHigh == 3
MAX_RETRY_ATTEMPTS == 3
MAX_WORKERS == 5

EndpointOrder == <<"p1", "p2", "p3">>
Endpoints == {EndpointOrder[k] : k \in 1..Len(EndpointOrder)}
None == "None"

FTasks == 0..MaxLinks

SeqsUpTo(S, n) == UNION {[1..k -> S] : k \in 0..n}

\* list.remove(e): drops the first occurrence of e.
ListRemove(s, e) ==
    LET i == CHOOSE k \in 1..Len(s) : s[k] = e /\ \A j \in 1..(k - 1) : s[j] # e
    IN  SubSeq(s, 1, i - 1) \o SubSeq(s, i + 1, Len(s))

InList(s, e) == \E k \in 1..Len(s) : s[k] = e

-----------------------------------------------------------------------------
\* get_working_proxies: the candidates whose probe succeeded, in order.
KeepAllCandidates(cs, ok) == cs
RECURSIVE get_working_proxies(_, _)
get_working_proxies(cs, ok) ==
    IF cs = <<>> THEN <<>>
    ELSE (IF Head(ok) THEN <<Head(cs)>> ELSE <<>>)
             \o get_working_proxies(Tail(cs), Tail(ok))

\* What fetch_proxies can return: any list of endpoints, repeats included.
\* Endpoints are interchangeable, so one list stands for its renamings: the
\* one whose endpoints first occur in the order p1, p2, p3.
Canonical(s) ==
    \A i \in 1..Len(s) : \A k \in 2..Len(EndpointOrder) :
        s[i] = EndpointOrder[k] => \E j \in 1..(i - 1) : s[j] = EndpointOrder[k - 1]

CandidateLists == {s \in SeqsUpTo(Endpoints, MaxCand) : Canonical(s)}

\* get_next_proxy, line 83: the cursor after handing out one endpoint.
NextIndexStuck(idx, n) == idx
NextIndex(idx, n) == (idx + 1) % n

\* get_next_proxy, line 82: proxies[current_proxy_index] raises IndexError
\* when the cursor is not a position of the list.
get_next_proxy_raises ==
    proxies # <<>> /\ current_proxy_index >= Len(proxies)

get_next_proxy_value ==
    IF proxies = <<>> THEN None ELSE proxies[current_proxy_index + 1]

\* random.uniform(1, 3): the two ends of the interval, in seconds.
JitterWide == {JitterLow, JitterHigh + 1}
Jitter == {JitterLow, JitterHigh}

\* One fetch_html call: its position, its locals (attempt, proxy), the sleep
\* it is in or was last in (delay) and the one before (prev_delay), and what
\* it did so far: GETs issued, GETs that ended in a ClientError, its result.
NewTask == [pc |-> "idle", attempt |-> 0, proxy |-> None, delay |-> 0,
            prev_delay |-> 0, gets |-> 0, fails |-> 0, result |-> "none"]

\* fetch_html is left with result r: its locals are gone.
Leave(t, pc, r) ==
    [ftask EXCEPT ![t].pc = pc, ![t].result = r, ![t].attempt = 0,
                  ![t].proxy = None, ![t].delay = 0, ![t].prev_delay = 0]

\* Lines 100-104 for task t, after the eviction if there was one: sleep d.
Sleep(t, d) ==
    [ftask EXCEPT ![t].pc = "sleep", ![t].fails = @ + 1,
                  ![t].prev_delay = ftask[t].delay, ![t].delay = d]

Terminal(t) == ftask[t].pc \in {"returned", "raised"}

\* Task t is awaited: the base page fetch by find_video_links, a detail
\* fetch by the gather of scrape.  Once an exception has left scrape, the
\* event loop shuts down and cancels what is left.
Awaited(t) == IF t = 0 THEN spc = "find" ELSE spc = "gather"

\* The head of the loop of fetch_html for task t with loop variable att:
\* leave the loop (lines 106-107), or take a proxy and issue the GET
\* (lines 90-95).  Runs without suspension up to session.get.
LoopHead(t, att) ==
    IF att >= MAX_RETRIES
    THEN /\ ftask' = Leave(t, "returned", None)
         /\ UNCHANGED <<proxies, current_proxy_index, handed>>
    ELSE IF ~use_proxy \/ proxies = <<>>
    THEN /\ ftask' = [ftask EXCEPT ![t].pc = "get", ![t].proxy = None,
                                   ![t].attempt = att, ![t].gets = @ + 1]
         /\ UNCHANGED <<proxies, current_proxy_index, handed>>
    ELSE IF get_next_proxy_raises
    THEN /\ ftask' = Leave(t, "raised", "IndexError")
         /\ UNCHANGED <<proxies, current_proxy_index, handed>>
    ELSE /\ ftask' = [ftask EXCEPT ![t].pc = "get", ![t].proxy = get_next_proxy_value,
                                   ![t].attempt = att, ![t].gets = @ + 1]
         /\ current_proxy_index' = NextIndex(current_proxy_index, Len(proxies))
         /\ handed' = IF evicted = {} THEN Append(handed, get_next_proxy_value)
                      ELSE handed
         /\ UNCHANGED proxies

-----------------------------------------------------------------------------
-----------------------------------------------------------------------------
\* Scraper.extract_metadata.  A page is a sequence of pieces: the pieces
\* the three regular expressions of lines 127-137 look for, and other text.
Piece(k, v, d) == [k |-> k, v |-> v, default |-> d]

PlaylistOpen == Piece("playlist: [", "", FALSE)
PlaylistClose == Piece("],", "", FALSE)
OtherText == Piece("text", "", FALSE)
TitlePiece(v) == Piece("title", v, FALSE)
SourcePiece(file, d) == Piece("source", file, d)

Pieces ==
    {PlaylistOpen, PlaylistClose, OtherText, TitlePiece("X"),
     SourcePiece("a.mp4", TRUE), SourcePiece("b.mp4", TRUE),
     SourcePiece("c.mp4", FALSE)}

\* fetch_html's return value as extract_metadata sees it: None, or the
\* text of the page.
NoContent == [absent |-> TRUE, body |-> <<>>]
Content(b) == [absent |-> FALSE, body |-> b]

\* extract_metadata's return value: None, or the dict of lines 139-142.
NoMetadata == [none |-> TRUE, title |-> "", file |-> ""]
Metadata(title, file) == [none |-> FALSE, title |-> title, file |-> file]

\* The positions of body that hold a piece of kind k.
Positions(body, k) == {i \in 1..Len(body) : body[i].k = k}

Least(S) == CHOOSE i \in S : \A j \in S : i <= j

\* Line 127, re.search(r'playlist: \[(.*?)\],', html_content, re.DOTALL):
\* the leftmost "playlist: [" that a "]," follows, and group 1, the text up
\* to the first "]," after it.  <<>> for no match, else <<group 1>>.
playlist_regex(body) ==
    LET opens == {i \in Positions(body, "playlist: [") :
                     \E j \in Positions(body, "],") : j > i}
    IN  IF opens = {} THEN <<>>
        ELSE LET i == Least(opens)
                 j == Least({c \in Positions(body, "],") : c > i})
             IN  <<SubSeq(body, i + 1, j - 1)>>

\* Line 133, re.search(r'title:\s*"(.*?)"', playlist_content): <<>> for no
\* match, else <<group 1>>.
title_regex(playlist_content) ==
    IF Positions(playlist_content, "title") = {} THEN <<>>
    ELSE <<playlist_content[Least(Positions(playlist_content, "title"))].v>>

\* Lines 134-137, re.findall: the sources of playlist_content, in order.
IsSource(piece) == piece.k = "source"
sources_regex(playlist_content) == SelectSeq(playlist_content, IsSource)

\* Line 141, next((source[0] for source in sources if source[2] == "true"), "").
NextAnySource(sources) ==
    IF sources = <<>> THEN "" ELSE sources[1].v
IsDefault(piece) == piece.default
NextDefaultSource(sources) ==
    IF SelectSeq(sources, IsDefault) = <<>> THEN ""
    ELSE SelectSeq(sources, IsDefault)[1].v

\* extract_metadata, lines 123-143, from the return value of fetch_html on.
extract_metadata(content) ==
    IF content.absent \/ content.body = <<>> THEN NoMetadata
    ELSE IF playlist_regex(content.body) = <<>> THEN NoMetadata
    ELSE LET playlist_content == playlist_regex(content.body)[1]
         IN  Metadata(IF title_regex(playlist_content) = <<>> THEN ""
                      ELSE title_regex(playlist_content)[1],
                      NextDefaultSource(sources_regex(playlist_content)))

\* The pages of the model.
Bodies == SeqsUpTo(Pieces, MaxBody)

\* The detail pages of a scrape: one with a playlist block, a title and a
\* default source, and one without a playlist block.
PlaylistPage ==
    <<PlaylistOpen, TitlePiece("X"), SourcePiece("a.mp4", TRUE), PlaylistClose>>
BarePage == <<OtherText>>
DetailPages == {PlaylistPage, BarePage}

\* No extract_metadata call is looked at on its own.
XIdle ==
    /\ html_content = NoContent
    /\ metadata = <<>>

\* No download run: main has not built a Downloader.
DIdle ==
    /\ videos = <<>>
    /\ files = {}
    /\ files0 = {}
    /\ video_queue = <<>>
    /\ retry_queue = <<>>
    /\ temp_queue = <<>>
    /\ retry_attempt = 1
    /\ mpc = "none"
    /\ report = "none"
    /\ work_queue = <<>>
    /\ calls = EmptyBag
    /\ starts = <<>>
    /\ succeeded = {}
    /\ dropped = {}
    /\ written = {}
    /\ clobbered = {}
    /\ faults = 0

\* Scraper.__init__ with the inputs of the run.
FInit ==
    /\ DIdle
    /\ XIdle
    /\ candidates = <<>>
    /\ probes = <<>>
    /\ use_proxy \in BOOLEAN
    /\ proxies = <<>>
    /\ current_proxy_index = 0
    /\ spc = "enter"
    /\ video_links = 0
    /\ scraper_videos = <<>>
    /\ proxy_disabled = FALSE
    /\ ftask = [t \in FTasks |-> NewTask]
    /\ handed = <<>>
    /\ evicted = {}

\* Scraper.__aenter__, line 66, and get_working_proxies, lines 51-53: the
\* candidates are fetched and probed, or proxies are not used at all.
AEnter ==
    /\ UNCHANGED <<dvars, xvars, scraper_videos, proxy_disabled>>
    /\ spc = "enter"
    /\ IF use_proxy
       THEN /\ candidates' \in CandidateLists
            /\ probes' \in [1..Len(candidates') -> BOOLEAN]
            /\ spc' = "probed"
       ELSE /\ spc' = "find"
            /\ UNCHANGED <<candidates, probes>>
    /\ UNCHANGED <<use_proxy, proxies, current_proxy_index, video_links, ftask,
                   handed, evicted>>

\* get_working_proxies, line 54, and Scraper.__aenter__, lines 67-72: the
\* pool is loaded; the lists of get_working_proxies are gone.
LoadPool ==
    /\ UNCHANGED <<dvars, xvars, scraper_videos>>
    /\ spc = "probed"
    /\ spc' = "find"
    /\ proxies' = get_working_proxies(candidates, probes)
    /\ use_proxy' = (proxies' # <<>>)
    /\ proxy_disabled' = (proxies' = <<>>)
    /\ candidates' = <<>>
    /\ probes' = <<>>
    /\ UNCHANGED <<current_proxy_index, video_links, ftask, handed, evicted>>

\* find_video_links calls fetch_html(base_url).
FindVideoLinks ==
    /\ UNCHANGED <<dvars, xvars, scraper_videos, proxy_disabled>>
    /\ spc = "find"
    /\ ftask[0].pc = "idle"
    /\ LoopHead(0, 0)
    /\ UNCHANGED <<candidates, probes, use_proxy, spc, video_links, evicted>>

\* The GET of task t succeeds with a 2xx status: fetch_html returns the body.
ResponseOk(t) ==
    /\ UNCHANGED <<dvars, xvars, scraper_videos, proxy_disabled>>
    /\ Awaited(t)
    /\ ftask[t].pc = "get"
    /\ ftask' = Leave(t, "returned", "body")
    /\ UNCHANGED <<candidates, probes, use_proxy, proxies, current_proxy_index,
                   spc, video_links, handed, evicted>>

\* The GET of task t ends in a ClientError (a connection error, or the
\* ClientResponseError of raise_for_status): lines 99-104.
ResponseClientError(t) ==
    /\ UNCHANGED <<dvars, xvars, scraper_videos, proxy_disabled>>
    /\ Awaited(t)
    /\ ftask[t].pc = "get"
    /\ IF ftask[t].proxy # None /\ use_proxy
       THEN IF InList(proxies, ftask[t].proxy)
            THEN /\ proxies' = ListRemove(proxies, ftask[t].proxy)
                 /\ evicted' = evicted \cup {ftask[t].proxy}
                 /\ \E d \in Jitter : ftask' = Sleep(t, d)
            ELSE \* list.remove raises ValueError inside the handler
                 /\ ftask' = [Leave(t, "raised", "ValueError")
                                 EXCEPT ![t].fails = @ + 1]
                 /\ UNCHANGED <<proxies, evicted>>
       ELSE /\ \E d \in Jitter : ftask' = Sleep(t, d)
            /\ UNCHANGED <<proxies, evicted>>
    /\ UNCHANGED <<candidates, probes, use_proxy, current_proxy_index, spc,
                   video_links, handed>>

\* The GET of task t runs into timeout=10: asyncio.TimeoutError is no
\* ClientError, so the handler of line 99 does not take it.
ResponseTimeout(t) ==
    /\ UNCHANGED <<dvars, xvars, scraper_videos, proxy_disabled>>
    /\ Awaited(t)
    /\ ftask[t].pc = "get"
    /\ ftask' = Leave(t, "raised", "TimeoutError")
    /\ UNCHANGED <<candidates, probes, use_proxy, proxies, current_proxy_index,
                   spc, video_links, handed, evicted>>

\* asyncio.sleep of line 104 is over: the next iteration of the loop.
Wake(t) ==
    /\ UNCHANGED <<dvars, xvars, scraper_videos, proxy_disabled>>
    /\ Awaited(t)
    /\ ftask[t].pc = "sleep"
    /\ LoopHead(t, ftask[t].attempt + 1)
    /\ UNCHANGED <<candidates, probes, use_proxy, spc, video_links, evicted>>

\* find_video_links and the head of scrape, once the base page fetch ended.
Discover ==
    /\ UNCHANGED <<dvars, xvars, scraper_videos, proxy_disabled>>
    /\ spc = "find"
    /\ Terminal(0)
    /\ IF ftask[0].pc = "raised"
       THEN spc' = "raised" /\ video_links' = 0
       ELSE IF ftask[0].result = None
       THEN spc' = "done" /\ video_links' = 0
       ELSE \E n \in 0..MaxLinks :
               /\ video_links' = n
               /\ spc' = IF n = 0 THEN "done" ELSE "gather"
    /\ ftask' = [ftask EXCEPT ![0] = [NewTask EXCEPT !.pc = "consumed"]]
    /\ UNCHANGED <<candidates, probes, use_proxy, proxies, current_proxy_index,
                   handed, evicted>>

\* asyncio.gather starts the detail tasks in list order; each runs up to
\* its first GET.
StartDetail(t) ==
    /\ UNCHANGED <<dvars, xvars, scraper_videos, proxy_disabled>>
    /\ spc = "gather"
    /\ t \in 1..video_links
    /\ ftask[t].pc = "idle"
    /\ \A u \in 1..(t - 1) : ftask[u].pc # "idle"
    /\ LoopHead(t, 0)
    /\ UNCHANGED <<candidates, probes, use_proxy, spc, video_links, evicted>>

\* asyncio.gather returns, or passes on the first exception of a task.
\* When it returns, self.videos holds what each extract_metadata call
\* returned, in the order of the links (lines 155-156): None for a call
\* whose fetch_html returned None, and for the others what lines 127-143
\* make of the page, which is any of DetailPages.
GatherDone ==
    /\ UNCHANGED <<dvars, xvars, proxy_disabled>>
    /\ spc = "gather"
    /\ \/ /\ \E t \in 1..video_links : ftask[t].pc = "raised"
          /\ spc' = "raised"
          /\ UNCHANGED scraper_videos
       \/ /\ \A t \in 1..video_links : ftask[t].pc = "returned"
          /\ spc' = "done"
          /\ \E pages \in [1..video_links -> DetailPages] :
                scraper_videos' =
                    [t \in 1..video_links |->
                        extract_metadata(IF ftask[t].result = None
                                         THEN NoContent
                                         ELSE Content(pages[t]))]
    /\ UNCHANGED <<candidates, probes, use_proxy, proxies, current_proxy_index,
                   video_links, ftask, handed, evicted>>

FNext ==
    \/ AEnter
    \/ LoadPool
    \/ FindVideoLinks
    \/ Discover
    \/ GatherDone
    \/ \E t \in FTasks :
          \/ ResponseOk(t)
          \/ ResponseClientError(t)
          \/ ResponseTimeout(t)
          \/ Wake(t)
          \/ StartDetail(t)

SpecFetch == FInit /\ [][FNext]_vars

-----------------------------------------------------------------------------
\* Scraper.scrape from line 154 on, for a base page that listed one link
\* more than the download pool has workers; no proxies.  Of the ways a
\* detail fetch can go, the ones that end at the first answer are followed.
GatherLinks == MAX_WORKERS + 1

GatherInit ==
    /\ DIdle
    /\ XIdle
    /\ candidates = <<>>
    /\ probes = <<>>
    /\ use_proxy = FALSE
    /\ proxies = <<>>
    /\ current_proxy_index = 0
    /\ spc = "gather"
    /\ video_links = GatherLinks
    /\ scraper_videos = <<>>
    /\ proxy_disabled = FALSE
    /\ ftask = [t \in 0..GatherLinks |->
                   IF t = 0 THEN [NewTask EXCEPT !.pc = "consumed"] ELSE NewTask]
    /\ handed = <<>>
    /\ evicted = {}

GatherNext ==
    \/ GatherDone
    \/ \E t \in 1..GatherLinks :
          \/ StartDetail(t)
          \/ ResponseOk(t)
          \/ ResponseTimeout(t)

SpecGather == GatherInit /\ [][GatherNext]_vars

-----------------------------------------------------------------------------
\* downloader.py.  Names are sequences of one-character strings.

Digits == <<"0", "1", "2", "3", "4", "5", "6", "7", "8", "9">>

\* str(n) for n >= 0.
RECURSIVE Str(_)
Str(n) ==
    IF n < 10 THEN <<Digits[n + 1]>>
    ELSE Str(n \div 10) \o <<Digits[(n % 10) + 1]>>

\* str.rfind(c), counted from 1: 0 when c does not occur.
RFind(p, c) ==
    IF \E k \in 1..Len(p) : p[k] = c
    THEN CHOOSE k \in 1..Len(p) : p[k] = c /\ \A j \in (k + 1)..Len(p) : p[j] # c
    ELSE 0

\* os.path.splitext (genericpath._splitext): split at the last dot after the
\* last separator, unless only dots stand before it.
splitext(p) ==
    LET sepIndex == RFind(p, "/")
        dotIndex == RFind(p, ".")
    IN  IF /\ dotIndex > sepIndex
           /\ \E k \in (sepIndex + 1)..(dotIndex - 1) : p[k] # "."
        THEN <<SubSeq(p, 1, dotIndex - 1), SubSeq(p, dotIndex, Len(p))>>
        ELSE <<p, <<>>>>

\* os.path.exists(os.path.join(download_folder, name)) in directory dir.
ExistsNever(name, dir) == FALSE
Exists(name, dir) == name \in dir

\* download_video, line 92: the extension of the URL's path.
UrlExt(video) == splitext(video.file)[2]

\* download_video, line 92: f"{title}{ext}".
Filename(video) == video.title \o UrlExt(video)

\* get_unique_filename, line 80, for counter i.
UniqueFilename(filename, i) ==
    splitext(filename)[1] \o <<"_">> \o Str(i) \o splitext(filename)[2]

\* get_unique_filename, lines 79-82: the loop over itertools.count(1), from
\* counter i on, in directory dir.
RECURSIVE UniqueFrom(_, _, _)
UniqueFrom(filename, dir, i) ==
    IF ~Exists(UniqueFilename(filename, i), dir)
    THEN UniqueFilename(filename, i)
    ELSE UniqueFrom(filename, dir, i + 1)

get_unique_filename(filename, dir) == UniqueFrom(filename, dir, 1)

\* download_video, lines 91-97: the name the download goes to.  Names are
\* only ever added to the folder during a run, so a name a probe found
\* taken is still taken at the last probe: the whole lookup reads the
\* folder as it is at that last probe, dir.
ResolveToFilename(video, dir) == Filename(video)
Resolve(video, dir) ==
    IF Exists(Filename(video), dir)
    THEN get_unique_filename(Filename(video), dir)
    ELSE Filename(video)

\* The assets of the model: a titled one, and one whose page gave no title
\* (extract_metadata then sets title to ""); both with a .m source.
TitledAsset == [title |-> <<"v">>, file |-> <<"/", "a", ".", "m">>]
UntitledAsset == [title |-> <<>>, file |-> <<"/", "a", ".", "m">>]
AssetOrder == <<TitledAsset, UntitledAsset>>
Assets == {AssetOrder[k] : k \in 1..Len(AssetOrder)}

\* The lists handed to the Downloader: any non-empty list of assets, repeats
\* included (two pages may give the same title and source).  The videos of
\* a list are treated alike whatever their position, so one list stands
\* for its reorderings: the one in the order of AssetOrder.
Sorted(v) ==
    \A i \in 1..(Len(v) - 1) :
        \E a, b \in 1..Len(AssetOrder) :
            a <= b /\ v[i] = AssetOrder[a] /\ v[i + 1] = AssetOrder[b]

VideoLists == {v \in SeqsUpTo(Assets, MaxVideos) : v # <<>> /\ Sorted(v)}

Jobs == 1..Len(videos)

\* The download_video calls in progress form a bag: retry_failed_downloads
\* can submit one video twice, and two calls for it may then stand at the
\* same place.  A call: its video, its position, the name it settled on.
NewCall(j, pc, name) == [job |-> j, pc |-> pc, name |-> name]

Running == BagCardinality(calls)

\* ThreadPoolExecutor(max_workers=MAX_WORKERS): a work item is taken only
\* by one of at most MAX_WORKERS threads, each running one call at a time.
WorkerAlwaysFree == TRUE
WorkerFree == Running < MAX_WORKERS

\* Call c moves on to d.
Move(c, d) == (calls (-) SetToBag({c})) (+) SetToBag({d})

\* download_video returns for call c.
Finish(c) == calls (-) SetToBag({c})

\* The destination folders of the model: empty, or holding names the
\* videos of the model collide with.
Folders ==
    {{}, {Filename(TitledAsset)},
     {Filename(TitledAsset), UniqueFilename(Filename(TitledAsset), 1)},
     {Filename(UntitledAsset)}}

\* No scraper in a run of the downloader alone.
FIdle ==
    /\ candidates = <<>>
    /\ probes = <<>>
    /\ use_proxy = FALSE
    /\ proxies = <<>>
    /\ current_proxy_index = 0
    /\ spc = "none"
    /\ video_links = 0
    /\ scraper_videos = <<>>
    /\ proxy_disabled = FALSE
    /\ ftask = [t \in FTasks |-> NewTask]
    /\ handed = <<>>
    /\ evicted = {}

\* Downloader.__init__ with the inputs of the run.
DInit ==
    /\ FIdle
    /\ XIdle
    /\ videos \in VideoLists
    /\ files \in Folders
    /\ files0 = files
    /\ video_queue = [j \in 1..Len(videos) |-> j]
    /\ retry_queue = <<>>
    /\ temp_queue = <<>>
    /\ retry_attempt = 1
    /\ mpc = "primary"
    /\ report = "none"
    /\ work_queue = <<>>
    /\ calls = EmptyBag
    /\ starts = [j \in 1..Len(videos) |-> 0]
    /\ succeeded = {}
    /\ dropped = {}
    /\ written = {}
    /\ clobbered = {}
    /\ faults = 0

\* process_queue, lines 151-153: one turn of the dispatch loop.
PrimaryDispatch ==
    /\ UNCHANGED <<fvars, xvars, faults>>
    /\ mpc = "primary"
    /\ video_queue # <<>>
    /\ video_queue' = Tail(video_queue)
    /\ work_queue' = Append(work_queue, Head(video_queue))
    /\ UNCHANGED <<videos, files, files0, retry_queue, temp_queue, retry_attempt,
                   mpc, report, calls, starts, succeeded, dropped, written,
                   clobbered>>

\* process_queue, line 151: the queue is empty, the with block is left.
PrimaryClose ==
    /\ UNCHANGED <<fvars, xvars, faults>>
    /\ mpc = "primary"
    /\ video_queue = <<>>
    /\ mpc' = "primary_join"
    /\ UNCHANGED <<videos, files, files0, video_queue, retry_queue, temp_queue,
                   retry_attempt, report, work_queue, calls, starts, succeeded,
                   dropped, written, clobbered>>

\* retry_failed_downloads, lines 163-165 and 176-179, with queue rq and
\* counter ra: another cycle, or the closing message.
RetryLoopHead(rq, ra) ==
    IF rq # <<>> /\ ra <= MAX_RETRY_ATTEMPTS
    THEN /\ temp_queue' = <<>>
         /\ mpc' = "retry"
         /\ report' = report
    ELSE /\ temp_queue' = <<>>
         /\ mpc' = "done"
         /\ report' = IF rq = <<>> THEN "all_completed" ELSE "some_failed"

\* The executor is shut down: every work item was taken and has returned.
ExecutorIdle == work_queue = <<>> /\ Running = 0

\* The executor of the primary pass has shut down; retry_failed_downloads
\* begins, line 161.
PrimaryJoin ==
    /\ UNCHANGED <<fvars, xvars, faults>>
    /\ mpc = "primary_join"
    /\ ExecutorIdle
    /\ retry_attempt' = 1
    /\ RetryLoopHead(retry_queue, 1)
    /\ UNCHANGED <<videos, files, files0, video_queue, retry_queue, work_queue,
                   calls, starts, succeeded, dropped, written, clobbered>>

\* retry_failed_downloads, lines 168-171: one turn of the dispatch loop.
RetryDispatch ==
    /\ UNCHANGED <<fvars, xvars, faults>>
    /\ mpc = "retry"
    /\ retry_queue # <<>>
    /\ retry_queue' = Tail(retry_queue)
    /\ work_queue' = Append(work_queue, Head(retry_queue))
    /\ temp_queue' = Append(temp_queue, Head(retry_queue))
    /\ UNCHANGED <<videos, files, files0, video_queue, retry_attempt, mpc, report,
                   calls, starts, succeeded, dropped, written, clobbered>>

\* retry_failed_downloads, line 168: the queue is empty, the with block is left.
RetryClose ==
    /\ UNCHANGED <<fvars, xvars, faults>>
    /\ mpc = "retry"
    /\ retry_queue = <<>>
    /\ mpc' = "retry_join"
    /\ UNCHANGED <<videos, files, files0, video_queue, retry_queue, temp_queue,
                   retry_attempt, report, work_queue, calls, starts, succeeded,
                   dropped, written, clobbered>>

\* The executor of the cycle has shut down; lines 173-174, then the loop head.
RetryJoin ==
    /\ UNCHANGED <<fvars, xvars, faults>>
    /\ mpc = "retry_join"
    /\ ExecutorIdle
    /\ retry_queue' = temp_queue
    /\ retry_attempt' = retry_attempt + 1
    /\ RetryLoopHead(temp_queue, retry_attempt + 1)
    /\ UNCHANGED <<videos, files, files0, video_queue, work_queue, calls, starts,
                   succeeded, dropped, written, clobbered>>

\* A worker thread takes the oldest work item, video j: download_video,
\* lines 91-97.
Start(j) ==
    /\ UNCHANGED <<fvars, xvars, faults>>
    /\ work_queue # <<>>
    /\ j = Head(work_queue)
    /\ WorkerFree
    /\ work_queue' = Tail(work_queue)
    /\ starts' = [starts EXCEPT ![j] = @ + 1]
    /\ calls' = calls (+) SetToBag({NewCall(j, "get", Resolve(videos[j], files))})
    /\ UNCHANGED <<videos, files, files0, video_queue, retry_queue, temp_queue,
                   retry_attempt, mpc, report, succeeded, dropped, written,
                   clobbered>>

\* Lines 101-102 and 117-119: the GET fails (connection, timeout, status).
GetFail(j) ==
    \E c \in BagToSet(calls) :
        /\ c.job = j
        /\ UNCHANGED <<fvars, xvars>>
        /\ faults < MaxFaults
        /\ faults' = faults + 1
        /\ c.pc = "get"
        /\ retry_queue' = Append(retry_queue, c.job)
        /\ calls' = Finish(c)
        /\ UNCHANGED <<videos, files, files0, video_queue, temp_queue, retry_attempt,
                       mpc, report, work_queue, starts, succeeded, dropped, written,
                       clobbered>>

\* Lines 101-107: the GET answers with a 2xx status and
\* open(download_path, "wb") creates the file, or empties it.
Open(j) ==
    \E c \in BagToSet(calls) :
        /\ c.job = j
        /\ UNCHANGED <<fvars, xvars, faults>>
        /\ c.pc = "get"
        /\ files' = files \cup {c.name}
        /\ written' = written \cup {c.name}
        /\ clobbered' = IF c.name \in written THEN clobbered \cup {c.name}
                        ELSE clobbered
        /\ calls' = Move(c, NewCall(c.job, "stream", c.name))
        /\ UNCHANGED <<videos, files0, video_queue, retry_queue, temp_queue,
                       retry_attempt, mpc, report, work_queue, starts, succeeded,
                       dropped>>

\* Lines 100-107 and 120-121: os.makedirs or open raises OSError; the video
\* is dropped.
OpenFail(j) ==
    \E c \in BagToSet(calls) :
        /\ c.job = j
        /\ UNCHANGED <<fvars, xvars>>
        /\ faults < MaxFaults
        /\ faults' = faults + 1
        /\ c.pc = "get"
        /\ dropped' = dropped \cup {c.job}
        /\ calls' = Finish(c)
        /\ UNCHANGED <<videos, files, files0, video_queue, retry_queue, temp_queue,
                       retry_attempt, mpc, report, work_queue, starts, succeeded,
                       written, clobbered>>

\* Lines 110-115: every chunk is written.
StreamOk(j) ==
    \E c \in BagToSet(calls) :
        /\ c.job = j
        /\ UNCHANGED <<fvars, xvars, faults>>
        /\ c.pc = "stream"
        /\ succeeded' = succeeded \cup {c.job}
        /\ calls' = Finish(c)
        /\ UNCHANGED <<videos, files, files0, video_queue, retry_queue, temp_queue,
                       retry_attempt, mpc, report, work_queue, starts, dropped,
                       written, clobbered>>

\* Lines 110 and 117-119: the stream breaks; the partial file stays.
StreamFail(j) ==
    \E c \in BagToSet(calls) :
        /\ c.job = j
        /\ UNCHANGED <<fvars, xvars>>
        /\ faults < MaxFaults
        /\ faults' = faults + 1
        /\ c.pc = "stream"
        /\ retry_queue' = Append(retry_queue, c.job)
        /\ calls' = Finish(c)
        /\ UNCHANGED <<videos, files, files0, video_queue, temp_queue, retry_attempt,
                       mpc, report, work_queue, starts, succeeded, dropped, written,
                       clobbered>>

\* Lines 112 and 120-121: file.write raises OSError; the video is dropped.
WriteFail(j) ==
    \E c \in BagToSet(calls) :
        /\ c.job = j
        /\ UNCHANGED <<fvars, xvars>>
        /\ faults < MaxFaults
        /\ faults' = faults + 1
        /\ c.pc = "stream"
        /\ dropped' = dropped \cup {c.job}
        /\ calls' = Finish(c)
        /\ UNCHANGED <<videos, files, files0, video_queue, retry_queue, temp_queue,
                       retry_attempt, mpc, report, work_queue, starts, succeeded,
                       written, clobbered>>

DNext ==
    \/ PrimaryDispatch
    \/ PrimaryClose
    \/ PrimaryJoin
    \/ RetryDispatch
    \/ RetryClose
    \/ RetryJoin
    \/ \E j \in 1..MaxVideos :
          \/ Start(j)
          \/ GetFail(j)
          \/ Open(j)
          \/ OpenFail(j)
          \/ StreamOk(j)
          \/ StreamFail(j)
          \/ WriteFail(j)

SpecDl == DInit /\ [][DNext]_vars

-----------------------------------------------------------------------------
\* The download engine on a list with one video more than the pool has
\* workers, with one failing attempt left to happen.
PoolVideos == MAX_WORKERS + 1

PoolInit ==
    /\ FIdle
    /\ XIdle
    /\ videos = [j \in 1..PoolVideos |-> TitledAsset]
    /\ files = {}
    /\ files0 = files
    /\ video_queue = [j \in 1..Len(videos) |-> j]
    /\ retry_queue = <<>>
    /\ temp_queue = <<>>
    /\ retry_attempt = 1
    /\ mpc = "primary"
    /\ report = "none"
    /\ work_queue = <<>>
    /\ calls = EmptyBag
    /\ starts = [j \in 1..Len(videos) |-> 0]
    /\ succeeded = {}
    /\ dropped = {}
    /\ written = {}
    /\ clobbered = {}
    /\ faults = MaxFaults - 1

PoolNext ==
    \/ PrimaryDispatch
    \/ PrimaryClose
    \/ PrimaryJoin
    \/ RetryDispatch
    \/ RetryClose
    \/ RetryJoin
    \/ \E j \in 1..PoolVideos :
          \/ Start(j)
          \/ GetFail(j)
          \/ Open(j)
          \/ OpenFail(j)
          \/ StreamOk(j)
          \/ StreamFail(j)
          \/ WriteFail(j)

SpecPool == PoolInit /\ [][PoolNext]_vars

-----------------------------------------------------------------------------
\* The download engine with no limit on how many GETs fail, for the
\* question whether process_queue comes to its end.  The history of starts
\* is not kept here, and temp_queue, which nothing reads before the cycle
\* is over, is kept up to MaxTemp entries: both only grow while workers
\* refill the queue the dispatcher is draining.

\* Start(j) without the count of starts.
FairStart(j) ==
    /\ UNCHANGED <<fvars, xvars, faults>>
    /\ work_queue # <<>>
    /\ j = Head(work_queue)
    /\ WorkerFree
    /\ work_queue' = Tail(work_queue)
    /\ calls' = calls (+) SetToBag({NewCall(j, "get", Resolve(videos[j], files))})
    /\ UNCHANGED <<videos, files, files0, video_queue, retry_queue, temp_queue,
                   retry_attempt, mpc, report, starts, succeeded, dropped, written,
                   clobbered>>

\* GetFail(j), any number of times.
FairGetFail(j) ==
    \E c \in BagToSet(calls) :
        /\ c.job = j
        /\ UNCHANGED <<fvars, xvars, faults>>
        /\ c.pc = "get"
        /\ retry_queue' = Append(retry_queue, c.job)
        /\ calls' = Finish(c)
        /\ UNCHANGED <<videos, files, files0, video_queue, temp_queue, retry_attempt,
                       mpc, report, work_queue, starts, succeeded, dropped, written,
                       clobbered>>

\* RetryDispatch, with temp_queue kept up to MaxTemp entries.
FairRetryDispatch ==
    /\ UNCHANGED <<fvars, xvars, faults>>
    /\ mpc = "retry"
    /\ retry_queue # <<>>
    /\ retry_queue' = Tail(retry_queue)
    /\ work_queue' = Append(work_queue, Head(retry_queue))
    /\ temp_queue' = IF Len(temp_queue) < MaxTemp
                     THEN Append(temp_queue, Head(retry_queue))
                     ELSE temp_queue
    /\ UNCHANGED <<videos, files, files0, video_queue, retry_attempt, mpc, report,
                   calls, starts, succeeded, dropped, written, clobbered>>

\* The thread that runs process_queue: it is never blocked except where it
\* waits for the executor to shut down.
MainThread ==
    \/ PrimaryDispatch
    \/ PrimaryClose
    \/ PrimaryJoin
    \/ FairRetryDispatch
    \/ RetryClose
    \/ RetryJoin

\* A worker thread takes the next work item.
WorkerTakes == \E j \in 1..MaxVideos : FairStart(j)

\* A download_video call for video j comes to its next step or to its end.
CallMoves(j) ==
    \/ FairGetFail(j)
    \/ Open(j)
    \/ StreamOk(j)

FairNext ==
    \/ MainThread
    \/ WorkerTakes
    \/ \E j \in 1..MaxVideos : CallMoves(j)

\* Every thread that can run does run in the end: the main thread, the
\* executor handing out work, and each call in progress.
SpecDlFair ==
    /\ DInit
    /\ [][FairNext]_vars
    /\ WF_vars(MainThread)
    /\ WF_vars(WorkerTakes)
    /\ \A j \in 1..MaxVideos : WF_vars(CallMoves(j))

-----------------------------------------------------------------------------
\* extract_metadata on its own, for any return value of fetch_html.
XInit ==
    /\ FIdle
    /\ DIdle
    /\ html_content \in {NoContent} \cup {Content(b) : b \in Bodies}
    /\ metadata = <<>>

ExtractMetadata ==
    /\ metadata = <<>>
    /\ metadata' = <<extract_metadata(html_content)>>
    /\ UNCHANGED <<fvars, dvars, html_content>>

XNext == ExtractMetadata

SpecExtract == XInit /\ [][XNext]_vars

-----------------------------------------------------------------------------
\* Properties of the fetch layer, checked under SpecFetch.

\* C1: proxy rotation.  As long as nothing was evicted from the loaded pool
\* of N >= 1 endpoints, the i-th get_next_proxy call returned the endpoint
\* at position ((i - 1) mod N): N consecutive calls return each position
\* once, in pool order, and call N + 1 returns the first endpoint again.
C1_Rotation ==
    (evicted = {} /\ proxies # <<>>) =>
        \A i \in 1..Len(handed) :
            handed[i] = proxies[((i - 1) % Len(proxies)) + 1]

\* A pool of two different endpoints, no eviction, and N + 1 = 3 calls made.
C1_Witness ==
    /\ evicted = {}
    /\ Len(proxies) = 2
    /\ proxies[1] # proxies[2]
    /\ Len(handed) = Len(proxies) + 1

C3_RetryCeiling ==
    \A t \in FTasks :
        Terminal(t) =>
            /\ (ftask[t].gets >= 1 /\ ftask[t].fails = ftask[t].gets)
                   => (ftask[t].gets = MAX_RETRIES /\ ftask[t].result = None)
            /\ ftask[t].result = "body"
                   => (ftask[t].gets = ftask[t].fails + 1
                       /\ ftask[t].gets <= MAX_RETRIES)

C5_NeverRaises ==
    \A t \in FTasks : ftask[t].pc # "raised"

-----------------------------------------------------------------------------
\* Properties of the download engine, checked under SpecDl.

\* The name C6 claims for a video downloaded into directory dir:
\* {title}{ext} when free, else {title}_k{ext} for the smallest free k >= 1.
ClaimedName(video, dir) ==
    LET suffixed(k) == video.title \o <<"_">> \o Str(k) \o UrlExt(video)
    IN  IF video.title \o UrlExt(video) \notin dir
        THEN video.title \o UrlExt(video)
        ELSE suffixed(CHOOSE k \in 1..(Cardinality(dir) + 1) :
                          /\ suffixed(k) \notin dir
                          /\ \A m \in 1..(k - 1) : suffixed(m) \in dir)

\* C6: filename collision, as claimed.  Whenever a download_video call
\* settles on its destination, the name is {title}{ext} if that is free in
\* the folder at that moment, else {title}_k{ext} with the smallest free
\* k >= 1.
C6_FirstFreeName ==
    [][ \A c \in BagToSet(calls') :
            (c.pc = "get" /\ CopiesIn(c, calls') > CopiesIn(c, calls))
                => c.name = ClaimedName(videos[c.job], files) ]_vars

\* C7: unique output names, as claimed.  No name is opened for writing by
\* two download_video calls of one run.
C7_NoClobber ==
    clobbered = {}

\* C8: download convergence, as claimed.  When process_queue is over, a
\* video that met no storage failure is among the reported failures (what
\* is left in retry_queue) exactly if none of its attempts succeeded.
C8_Convergence ==
    mpc = "done" =>
        \A j \in Jobs \ dropped :
            InList(retry_queue, j) <=> j \notin succeeded

\* C9: attempt bound, as claimed.  download_video is started at most
\* MAX_RETRY_ATTEMPTS + 1 times for any one video.
C9_AttemptBound ==
    \A j \in Jobs : starts[j] <= MAX_RETRY_ATTEMPTS + 1

\* C10: reruns never overwrite.  No name that existed in the folder when
\* the run began is opened for writing during the run.
C10_NoOverwriteOfPrior ==
    written \cap files0 = {}

\* A video whose own name {title}{ext} was taken before the run has been
\* downloaded to the end.
C10_Witness ==
    \E j \in Jobs :
        /\ Filename(videos[j]) \in files0
        /\ j \in succeeded
        /\ written # {}

\* C11: file count, as claimed.  When a run in which every video was
\* downloaded to the end is over, the folder holds the files it held before
\* the run and one new file for each video of the list.
C11_FileCount ==
    (mpc = "done" /\ succeeded = Jobs)
        => Cardinality(files) = Cardinality(files0) + Len(videos)

\* The playlist block of a page as the claim reads it: what stands between
\* the first "playlist: [" with a "]," after it and that "],".
HasPlaylist(body) ==
    \E i, j \in 1..Len(body) :
        i < j /\ body[i] = PlaylistOpen /\ body[j] = PlaylistClose

PlaylistStart(body) ==
    Least({i \in 1..Len(body) :
              body[i] = PlaylistOpen
                  /\ \E j \in (i + 1)..Len(body) : body[j] = PlaylistClose})

PlaylistEnd(body) ==
    Least({j \in (PlaylistStart(body) + 1)..Len(body) : body[j] = PlaylistClose})

InPlaylist(body) == (PlaylistStart(body) + 1)..(PlaylistEnd(body) - 1)

\* C12: metadata extraction.  For an absent body or a body with no playlist
\* block extract_metadata returns None; for a body with a playlist block it
\* returns a dict whose title is the block's title and whose file is the
\* file of the entry flagged default, the first if several are flagged, or
\* the empty string when no entry of the block is flagged.
C12_Extraction ==
    metadata # <<>> =>
        IF html_content.absent \/ ~HasPlaylist(html_content.body)
        THEN metadata[1].none
        ELSE LET body == html_content.body
                 flagged == {i \in InPlaylist(body) :
                                body[i].k = "source" /\ body[i].default}
                 titles == {i \in InPlaylist(body) : body[i].k = "title"}
             IN  /\ ~metadata[1].none
                 /\ titles # {} => metadata[1].title = body[Least(titles)].v
                 /\ flagged = {} => metadata[1].file = ""
                 /\ flagged # {} => metadata[1].file = body[Least(flagged)].v

\* A page whose playlist block holds an entry not flagged default and,
\* after it, an entry flagged default: a file came back.
C12_Witness ==
    /\ metadata # <<>>
    /\ ~html_content.absent
    /\ HasPlaylist(html_content.body)
    /\ \E i, j \in InPlaylist(html_content.body) :
          /\ i < j
          /\ html_content.body[i] = SourcePiece("c.mp4", FALSE)
          /\ html_content.body[j].k = "source" /\ html_content.body[j].default
    /\ ~metadata[1].none
    /\ metadata[1].file # ""

\* C13: the scrape result, as claimed.  The list Scraper.scrape returns,
\* which main hands to the Downloader as it is, holds no absent entry.
C13_NoAbsentEntries ==
    spc = "done" =>
        \A i \in 1..Len(scraper_videos) : ~scraper_videos[i].none

\* The k-th smallest element of a set of numbers.
RECURSIVE KthOf(_, _)
KthOf(S, k) == IF k = 1 THEN Least(S) ELSE KthOf(S \ {Least(S)}, k - 1)

\* C14: pool load.  Loading leaves in the pool exactly the candidates whose
\* probe succeeded, in the order of the candidates; when none passed the
\* pool is empty and proxy usage is off; and whenever proxy usage is off,
\* every GET of fetch_html goes out with no proxy.
C14_LoadDegrades ==
    [][ /\ spc = "probed" =>
              LET passed == {i \in 1..Len(candidates) : probes[i]}
              IN  /\ Len(proxies') = Cardinality(passed)
                  /\ \A k \in 1..Cardinality(passed) :
                        proxies'[k] = candidates[KthOf(passed, k)]
                  /\ passed = {} => (proxies' = <<>> /\ ~use_proxy')
                  /\ spc' = "find"
        /\ ~use_proxy' =>
              \A t \in FTasks :
                  ftask'[t].pc = "get" => ftask'[t].proxy = None ]_vars

\* The load found no working candidate, and a GET is on its way directly.
C14_Witness ==
    /\ proxy_disabled
    /\ ~use_proxy
    /\ proxies = <<>>
    /\ \E t \in FTasks : ftask[t].pc = "get" /\ ftask[t].proxy = None

\* C15: the run completes, as claimed.  When every thread is scheduled and
\* every download attempt comes to an end, process_queue reaches its
\* closing message.
C15_RunCompletes == <>(mpc = "done")

\* C16: storage failures, as claimed.  Once an attempt for a video has
\* ended in a storage failure, download_video is not started for that
\* video again.
C16_DroppedNotRestarted ==
    [][ \A j \in Jobs : j \in dropped => starts'[j] = starts[j] ]_vars

\* How often video j stands in queue q.
Occurrences(q, j) == Cardinality({i \in 1..Len(q) : q[i] = j})

\* C17: sequential retry cycles, as claimed.  In a retry cycle every video
\* is started at most once: of the times the cycle has dispatched it, all
\* but at most one are still waiting for a worker.
C17_OncePerCycle ==
    mpc \in {"retry", "retry_join"} =>
        \A j \in Jobs :
            Occurrences(temp_queue, j) - Occurrences(work_queue, j) <= 1

\* C18: bounded download parallelism.  At no moment, in the primary pass
\* or in a retry cycle, are more than MAX_WORKERS download_video calls in
\* progress.
C18_BoundedParallelism ==
    BagCardinality(calls) <= MAX_WORKERS

\* All five workers are busy while a sixth video waits for one of them.
C18_Witness ==
    /\ BagCardinality(calls) = MAX_WORKERS
    /\ work_queue # <<>>

\* C19: bounded scrape parallelism, as claimed.  During scrape, the detail
\* page GETs under way at the same time number at most five, the width of
\* the download pool.
C19_BoundedScrape ==
    Cardinality({t \in DOMAIN ftask \ {0} : ftask[t].pc = "get"}) <= MAX_WORKERS

\* The first position of endpoint e in pool s.
FirstPosition(s, e) == Least({k \in 1..Len(s) : s[k] = e})

\* C20: rotation across eviction, as claimed.  When fetch_html evicts an
\* endpoint, the endpoint that was next in the rotation before the
\* eviction, if it is not the evicted slot itself, is still the next one
\* get_next_proxy returns: no surviving endpoint is skipped.
C20_GapFree ==
    [][ \A t \in FTasks :
            (ftask[t].pc = "get" /\ ftask'[t].pc = "sleep"
                /\ proxies' # proxies /\ current_proxy_index < Len(proxies)
                /\ FirstPosition(proxies, ftask[t].proxy) # current_proxy_index + 1)
            => /\ current_proxy_index' < Len(proxies')
               /\ proxies'[current_proxy_index' + 1]
                      = proxies[current_proxy_index + 1] ]_vars

\* C21: transport failures, as claimed.  Whatever way a GET of fetch_html
\* fails (connection error, timeout, status), the call stays in its retry
\* loop: it goes on to the delay of line 104, towards the next attempt or
\* exhaustion.
C21_FailuresRetryable ==
    [][ \A t \in FTasks :
            (ftask[t].pc = "get" /\ ftask'[t].pc \notin {"get", "returned"})
                => ftask'[t].pc = "sleep" ]_vars

\* C22: concurrent eviction, as claimed.  When a GET through an endpoint
\* that another task has evicted meanwhile fails, the eviction is a no-op:
\* the pool stays as it is and the call goes on to its delay.
C22_EvictionNoOp ==
    [][ \A t \in FTasks :
            (/\ ftask[t].pc = "get"
             /\ ftask[t].proxy # None
             /\ ~InList(proxies, ftask[t].proxy)
             /\ ftask'[t].fails = ftask[t].fails + 1)
            => (ftask'[t].pc = "sleep" /\ proxies' = proxies) ]_vars

\* C23: success is final, as claimed.  Once a download_video call for a
\* video has run to its end, download_video is not started for that video
\* again.
C23_DoneIsTerminal ==
    [][ \A j \in Jobs : j \in succeeded => starts'[j] = starts[j] ]_vars

\* C24: cursor validity, as claimed.  Whenever the pool is not empty, the
\* rotation cursor is a position of the pool.
C24_CursorValid ==
    proxies # <<>> =>
        (0 <= current_proxy_index /\ current_proxy_index < Len(proxies))

====
